---- MODULE Spec2Model ----
(***************************************************************************)
(* Model of scripts/package_skill.py: the skill name validator, the        *)
(* SKILL.md frontmatter validator and the packager (walk + zip writer).    *)
(* Strings are sequences of one-character strings; a path is a sequence of *)
(* components; the filesystem is a partial function from paths to nodes.   *)
(***************************************************************************)
EXTENDS Integers, Sequences, FiniteSets, TLC

VARIABLES
    fs,         \* the filesystem: path -> [kind, data]
    argv,       \* per invocation: sys.argv[1:]
    pc,         \* per invocation: position in main / package_skill
    loc,        \* per invocation: locals of package_skill
    out,        \* per invocation: lines printed, as <<tag, text>>
    fsops,      \* per invocation: filesystem operations performed so far
    ret,        \* per invocation: return value of package_skill
    exit_code,  \* per invocation: process exit status
    fs0,        \* the filesystem when the current run(s) started
    hist,       \* results of the earlier runs of invocation 1
    name_arg,   \* argument of a direct call of validate_skill_name
    name_ret,   \* its return value
    md_lines,   \* the lines a SKILL.md was written from
    md_term,    \* the line terminator it was written with
    fm_ret,     \* return value of a direct call of validate_frontmatter
    fm_end      \* frontmatter_end at that return

vars == <<fs, argv, pc, loc, out, fsops, ret, exit_code, fs0, hist,
          name_arg, name_ret, md_lines, md_term, fm_ret, fm_end>>

pkgVars == <<fs, argv, pc, loc, out, fsops, ret, exit_code, fs0, hist>>
nameVars == <<name_arg, name_ret>>
fmVars == <<md_lines, md_term, fm_ret, fm_end>>

(***************************************************************************)
(* Bounds                                                                  *)
(***************************************************************************)
MaxShort == 3       \* short skill names: lengths 0..MaxShort
MaxOver == 2        \* long skill names: up to 64 + MaxOver characters
MaxLines == 4       \* lines of a SKILL.md given to validate_frontmatter
MaxRuns == 2        \* sequential runs of one invocation

(***************************************************************************)
(* Python values and string primitives                                     *)
(***************************************************************************)
None == <<>>
NoRet == <<FALSE, "pending">>     \* a validator that has not returned yet
Pending == "pending"               \* package_skill has not returned yet

\* Operators that walk a string bind their argument as the element of a one-element
\* domain, [v \in {s} |-> ...][s]: the argument is then a value in the body, and is
\* not computed again at each use.
RECURSIVE Str(_)
Str(s) == [v \in {s} |-> IF v = <<>> THEN "" ELSE Head(v) \o Str(Tail(v))][s]

Rep(c, n) == [i \in 1..n |-> c]

\* code points of the characters the model uses
Ord(c) ==
    CASE c = "\n" -> 10
      [] c = "\t" -> 9
      [] c = "\r" -> 13
      [] c = " " -> 32
      [] c = "-" -> 45
      [] c = "." -> 46
      [] c = "/" -> 47
      [] c = "0" -> 48
      [] c = "9" -> 57
      [] c = ":" -> 58
      [] c = "A" -> 65
      [] c = "F" -> 70
      [] c = "B" -> 66
      [] c = "_" -> 95
      [] c = "a" -> 97
      [] c = "b" -> 98
      [] c = "c" -> 99
      [] c = "d" -> 100
      [] c = "e" -> 101
      [] c = "f" -> 102
      [] c = "i" -> 105
      [] c = "m" -> 109
      [] c = "n" -> 110
      [] c = "o" -> 111
      [] c = "p" -> 112
      [] c = "r" -> 114
      [] c = "s" -> 115
      [] c = "t" -> 116
      [] c = "x" -> 120
      [] c = "y" -> 121
      [] c = "z" -> 122
      [] c = "{" -> 123
      [] OTHER -> 255

\* the character class [a-z0-9-]
InClass(c) == Ord(c) \in (97..122) \cup (48..57) \cup {45}

\* the $ of the re module: at the end, or just before a newline that ends the string
AtDollar(s, k) == k = Len(s) \/ (k = Len(s) - 1 /\ s[Len(s)] = "\n")

\* re.match of the pattern ^[a-z0-9-]+$ on name
re_match(name) ==
    \E k \in 1..Len(name) :
        /\ AtDollar(name, k)
        /\ \A i \in 1..k : InClass(name[i])

MaxNameLen == 64

MsgNameFormat == "Skill name must contain only lowercase letters, numbers, and hyphens"
MsgNameLong == "Skill name must be 64 characters or less"

validate_skill_name(name) ==
    IF ~re_match(name) THEN <<FALSE, MsgNameFormat>>
    ELSE IF Len(name) > MaxNameLen THEN <<FALSE, MsgNameLong>>
    ELSE <<TRUE, "None">>

(***************************************************************************)
(* Text files                                                              *)
(***************************************************************************)
BadByte == "0xFF"     \* a byte that is not valid UTF-8

\* newline=None of open(): "\r\n" and "\r" are read as "\n"
RECURSIVE TranslateNewlines(_)
TranslateNewlines(s) ==
    [v \in {s} |->
        IF v = <<>> THEN <<>>
        ELSE IF Head(v) = "\r"
             THEN IF Len(v) >= 2 /\ v[2] = "\n"
                  THEN <<"\n">> \o TranslateNewlines(Tail(Tail(v)))
                  ELSE <<"\n">> \o TranslateNewlines(Tail(v))
             ELSE <<Head(v)>> \o TranslateNewlines(Tail(v))][s]

\* open(path, 'r', encoding='utf-8').read(): <<ok, content>>
ReadText(path) ==
    IF path \notin DOMAIN fs THEN <<FALSE, "No such file or directory">>
    ELSE IF fs[path].kind # "file" THEN <<FALSE, "Is a directory">>
    ELSE IF \E i \in 1..Len(fs[path].data.text) : fs[path].data.text[i] = BadByte
         THEN <<FALSE, "'utf-8' codec can't decode byte 0xff">>
    ELSE <<TRUE, TranslateNewlines(fs[path].data.text)>>

startswith(s, prefix) ==
    Len(s) >= Len(prefix) /\ SubSeq(s, 1, Len(prefix)) = prefix

RECURSIVE split(_, _)
split(s, sep) ==
    [v \in {s} |->
        IF \A i \in 1..Len(v) : v[i] # sep THEN <<v>>
        ELSE [k \in {CHOOSE i \in 1..Len(v) :
                        v[i] = sep /\ \A j \in 1..(i - 1) : v[j] # sep} |->
                <<SubSeq(v, 1, k - 1)>> \o split(SubSeq(v, k + 1, Len(v)), sep)]
             [CHOOSE i \in 1..Len(v) : v[i] = sep /\ \A j \in 1..(i - 1) : v[j] # sep]][s]

Whitespace == {" ", "\t", "\n", "\r", "\f"}

RECURSIVE lstrip(_)
lstrip(s) ==
    [v \in {s} |-> IF v # <<>> /\ Head(v) \in Whitespace THEN lstrip(Tail(v)) ELSE v][s]

RECURSIVE rstrip(_)
rstrip(s) ==
    [v \in {s} |-> IF v # <<>> /\ v[Len(v)] \in Whitespace
                   THEN rstrip(SubSeq(v, 1, Len(v) - 1)) ELSE v][s]

strip(s) == rstrip(lstrip(s))

RECURSIVE join(_, _)
join(sep, ls) ==
    [v \in {ls} |-> IF v = <<>> THEN <<>>
                    ELSE IF Len(v) = 1 THEN v[1]
                    ELSE v[1] \o sep \o join(sep, Tail(v))][ls]

\* sub in s
contains(sub, s) ==
    [v \in {s} |->
        \E k \in 1..(Len(v) - Len(sub) + 1) : SubSeq(v, k, k + Len(sub) - 1) = sub][s]

Delim == <<"-", "-", "-">>
KeyName == <<"n", "a", "m", "e", ":">>
KeyDescription == <<"d", "e", "s", "c", "r", "i", "p", "t", "i", "o", "n", ":">>

MsgNoStart == "SKILL.md must start with YAML frontmatter (---)"
MsgNoEnd == "SKILL.md frontmatter must end with ---"
MsgNoName == "SKILL.md frontmatter must include 'name:' field"
MsgNoDescription == "SKILL.md frontmatter must include 'description:' field"
MsgReadError == "Error reading SKILL.md: "

\* mutant: the closing delimiter is looked for without strip()
frontmatter_end_exact(lines) ==
    [v \in {lines} |->
        IF \E i \in 2..Len(v) : v[i] = Delim
        THEN (CHOOSE i \in 2..Len(v) :
                  /\ v[i] = Delim
                  /\ \A j \in 2..(i - 1) : v[j] # Delim) - 1
        ELSE -1][lines]

\* the loop of lines 35-39; lines is 1-based here, the result is Python's index
frontmatter_end(lines) ==
    [v \in {lines} |->
        IF \E i \in 2..Len(v) : strip(v[i]) = Delim
        THEN (CHOOSE i \in 2..Len(v) :
                  /\ strip(v[i]) = Delim
                  /\ \A j \in 2..(i - 1) : strip(v[j]) # Delim) - 1
        ELSE -1][lines]

\* mutant: the slice starts at the first line, lines[0:frontmatter_end]
frontmatter_from_first_line(lines) ==
    [v \in {lines} |-> join(<<"\n">>, SubSeq(v, 1, frontmatter_end(v)))][lines]

\* lines[1:frontmatter_end] joined
frontmatter(lines) ==
    [v \in {lines} |-> join(<<"\n">>, SubSeq(v, 2, frontmatter_end(v)))][lines]

\* lines 29-53, on the content read
check_content(content) ==
    [lines \in {split(content, "\n")} |->
        IF ~startswith(content, Delim) THEN <<FALSE, MsgNoStart>>
        ELSE IF frontmatter_end(lines) = -1 THEN <<FALSE, MsgNoEnd>>
        ELSE [fm \in {frontmatter(lines)} |->
                 IF ~contains(KeyName, fm) THEN <<FALSE, MsgNoName>>
                 ELSE IF ~contains(KeyDescription, fm) THEN <<FALSE, MsgNoDescription>>
                 ELSE <<TRUE, "None">>][frontmatter(lines)]][split(content, "\n")]

validate_frontmatter(skill_md_path) ==
    [rd \in {ReadText(skill_md_path)} |->
        IF ~rd[1] THEN <<FALSE, MsgReadError \o rd[2]>>
        ELSE check_content(rd[2])][ReadText(skill_md_path)]

(***************************************************************************)
(* Paths and the filesystem                                                *)
(***************************************************************************)
Procs == {1, 2}

Cwd == <<"w">>                     \* Path.cwd()
parent(p) == SubSeq(p, 1, Len(p) - 1)
is_under(p, d) == Len(p) > Len(d) /\ SubSeq(p, 1, Len(d)) = d
relative_to(p, base) == SubSeq(p, Len(base) + 1, Len(p))

NoData == [text |-> <<>>, zip |-> <<>>, closed |-> TRUE]
Dir == [kind |-> "dir", data |-> NoData]
File(text) == [kind |-> "file", data |-> [text |-> text, zip |-> <<>>, closed |-> TRUE]]
NoFiles == [x \in {} |-> Dir]

exists(p) == p \in DOMAIN fs
is_dir(f, p) == p \in DOMAIN f /\ f[p].kind = "dir"

\* the permutations of a finite set, as sequences
Perms(S) ==
    {s \in [1..Cardinality(S) -> S] : \A i, j \in 1..Cardinality(S) : s[i] = s[j] => i = j}

(***************************************************************************)
(* Invocation: main and package_skill, one action per step                 *)
(***************************************************************************)
InitLoc == [source_path |-> None, skill_md |-> None, output_file |-> None,
            stack |-> <<>>, files |-> {}]

skill_name(p) == argv[p][1]
source_arg(p) == IF Len(argv[p]) > 1 THEN argv[p][2] ELSE None
output_arg(p) == IF Len(argv[p]) > 2 THEN argv[p][3] ELSE None

printed(p, lines) == [out EXCEPT ![p] = @ \o lines]
did(p, op, ok) == [fsops EXCEPT ![p] = Append(@, [op |-> op, ok |-> ok])]

\* lines 71-72, 81-82, 87-88, 93-94, 135-136: report the error, return False
Fail(p, text) ==
    /\ out' = printed(p, <<<<"error", text>>>>)
    /\ ret' = [ret EXCEPT ![p] = "False"]
    /\ pc' = [pc EXCEPT ![p] = "return"]

Main(p) ==
    /\ pc[p] = "main"
    /\ IF Len(argv[p]) < 1
       THEN /\ out' = printed(p, <<<<"usage", "Usage: python package_skill.py">>>>)
            /\ exit_code' = [exit_code EXCEPT ![p] = 1]
            /\ pc' = [pc EXCEPT ![p] = "exited"]
       ELSE /\ out' = printed(p, <<<<"banner", "Packaging skill: " \o Str(skill_name(p))>>>>)
            /\ pc' = [pc EXCEPT ![p] = "validate_name"]
            /\ UNCHANGED exit_code
    /\ UNCHANGED <<fs, argv, loc, fsops, ret, fs0, hist, nameVars, fmVars>>

\* mutant: the error is reported but the return after it is missing
ValidateName_NoEarlyReturn(p) ==
    /\ pc[p] = "validate_name"
    /\ LET r == validate_skill_name(skill_name(p))
           base == IF source_arg(p) = None THEN Cwd ELSE source_arg(p)
       IN  /\ loc' = [loc EXCEPT ![p].source_path = Append(base, Str(skill_name(p)))]
           /\ pc' = [pc EXCEPT ![p] = "check_dir"]
           /\ out' = IF r[1] THEN out ELSE printed(p, <<<<"error", r[2]>>>>)
           /\ UNCHANGED ret
    /\ UNCHANGED <<fs, argv, fsops, exit_code, fs0, hist, nameVars, fmVars>>

ValidateName(p) ==
    /\ pc[p] = "validate_name"
    /\ LET r == validate_skill_name(skill_name(p))
           base == IF source_arg(p) = None THEN Cwd ELSE source_arg(p)
       IN  IF ~r[1]
           THEN Fail(p, r[2]) /\ UNCHANGED loc
           ELSE /\ loc' = [loc EXCEPT ![p].source_path = Append(base, Str(skill_name(p)))]
                /\ pc' = [pc EXCEPT ![p] = "check_dir"]
                /\ UNCHANGED <<out, ret>>
    /\ UNCHANGED <<fs, argv, fsops, exit_code, fs0, hist, nameVars, fmVars>>

CheckSourceDir(p) ==
    /\ pc[p] = "check_dir"
    /\ fsops' = did(p, "exists", TRUE)
    /\ IF ~exists(loc[p].source_path)
       THEN Fail(p, "Skill directory not found")
       ELSE /\ pc' = [pc EXCEPT ![p] = "check_md"]
            /\ UNCHANGED <<out, ret>>
    /\ UNCHANGED <<fs, argv, loc, exit_code, fs0, hist, nameVars, fmVars>>

CheckSkillMd(p) ==
    /\ pc[p] = "check_md"
    /\ fsops' = did(p, "exists", TRUE)
    /\ loc' = [loc EXCEPT ![p].skill_md = Append(loc[p].source_path, "SKILL.md")]
    /\ IF ~exists(Append(loc[p].source_path, "SKILL.md"))
       THEN Fail(p, "SKILL.md not found")
       ELSE /\ pc' = [pc EXCEPT ![p] = "validate_fm"]
            /\ UNCHANGED <<out, ret>>
    /\ UNCHANGED <<fs, argv, exit_code, fs0, hist, nameVars, fmVars>>

\* mutant: the output file is opened for writing before the header block is checked
ValidateFrontmatter_CreatesOutputFirst(p) ==
    /\ pc[p] = "validate_fm"
    /\ fsops' = did(p, "read", ReadText(loc[p].skill_md)[1])
    /\ LET dir == IF output_arg(p) = None THEN Cwd ELSE output_arg(p)
           output_file == Append(dir, Str(skill_name(p)) \o ".skill")
       IN  fs' = IF is_dir(fs, parent(output_file)) /\ ~is_dir(fs, output_file)
                 THEN (output_file :>
                         [kind |-> "file",
                          data |-> [text |-> <<>>, zip |-> <<>>, closed |-> FALSE]]) @@ fs
                 ELSE fs
    /\ \E r \in {validate_frontmatter(loc[p].skill_md)} :
           IF ~r[1]
           THEN Fail(p, r[2])
           ELSE /\ out' = printed(p, <<<<"validated", Str(skill_name(p))>>>>)
                /\ pc' = [pc EXCEPT ![p] = "open_zip"]
                /\ UNCHANGED ret
    /\ UNCHANGED <<argv, loc, exit_code, fs0, hist, nameVars, fmVars>>

ValidateFrontmatter(p) ==
    /\ pc[p] = "validate_fm"
    /\ fsops' = did(p, "read", ReadText(loc[p].skill_md)[1])
    /\ \E r \in {validate_frontmatter(loc[p].skill_md)} :
           IF ~r[1]
           THEN Fail(p, r[2])
           ELSE /\ out' = printed(p, <<<<"validated", Str(skill_name(p))>>>>)
                /\ pc' = [pc EXCEPT ![p] = "open_zip"]
                /\ UNCHANGED ret
    /\ UNCHANGED <<fs, argv, loc, exit_code, fs0, hist, nameVars, fmVars>>

\* zipfile.ZipFile(output_file, 'w'): creates or truncates the file
CanCreate(path) == is_dir(fs, parent(path)) /\ ~is_dir(fs, path)

\* mutant: the output directory argument is ignored, the archive goes to the cwd
OpenZip_IgnoresOutputDir(p) ==
    /\ pc[p] = "open_zip"
    /\ LET output_file == Append(Cwd, Str(skill_name(p)) \o ".skill")
       IN  /\ loc' = [loc EXCEPT ![p].output_file = output_file,
                                 ![p].stack = <<loc[p].source_path>>]
           /\ fsops' = did(p, "create", TRUE)
           /\ out' = printed(p, <<<<"creating", "Creating package">>>>)
           /\ fs' = (output_file :>
                       [kind |-> "file",
                        data |-> [text |-> <<>>, zip |-> <<>>, closed |-> FALSE]]) @@ fs
           /\ pc' = [pc EXCEPT ![p] = "walk"]
           /\ UNCHANGED ret
    /\ UNCHANGED <<argv, exit_code, fs0, hist, nameVars, fmVars>>

OpenZip(p) ==
    /\ pc[p] = "open_zip"
    /\ LET dir == IF output_arg(p) = None THEN Cwd ELSE output_arg(p)
           output_file == Append(dir, Str(skill_name(p)) \o ".skill")
       IN  /\ loc' = [loc EXCEPT ![p].output_file = output_file,
                                 ![p].stack = <<loc[p].source_path>>]
           /\ \E io_error \in BOOLEAN :
                IF io_error \/ ~CanCreate(output_file)
                THEN /\ fsops' = did(p, "create", FALSE)
                     /\ out' = printed(p, <<<<"creating", "Creating package">>,
                                            <<"error", "Error creating package">>>>)
                     /\ ret' = [ret EXCEPT ![p] = "False"]
                     /\ pc' = [pc EXCEPT ![p] = "return"]
                     /\ UNCHANGED fs
                ELSE /\ fsops' = did(p, "create", TRUE)
                     /\ out' = printed(p, <<<<"creating", "Creating package">>>>)
                     /\ fs' = (output_file :>
                                 [kind |-> "file",
                                  data |-> [text |-> <<>>, zip |-> <<>>, closed |-> FALSE]])
                              @@ fs
                     /\ pc' = [pc EXCEPT ![p] = "walk"]
                     /\ UNCHANGED ret
    /\ UNCHANGED <<argv, exit_code, fs0, hist, nameVars, fmVars>>

\* os.walk: the next directory is listed when the loop asks for it
Scandir(p) ==
    /\ pc[p] = "walk"
    /\ loc[p].files = {}
    /\ loc[p].stack # <<>>
    /\ fsops' = did(p, "scandir", TRUE)
    /\ LET top == Head(loc[p].stack)
           entries == IF is_dir(fs, top)
                      THEN {q \in DOMAIN fs : Len(q) = Len(top) + 1 /\ parent(q) = top}
                      ELSE {}
           dirs == {q \in entries : fs[q].kind = "dir"}
       IN  \E order \in Perms(dirs) :
               loc' = [loc EXCEPT ![p].files = entries \ dirs,
                                  ![p].stack = order \o Tail(loc[p].stack)]
    /\ UNCHANGED <<fs, argv, pc, out, ret, exit_code, fs0, hist, nameVars, fmVars>>

\* the with block is left by an exception: the archive is closed, then line 134
Abort(p) ==
    /\ fs' = [fs EXCEPT ![loc[p].output_file].data.closed = TRUE]
    /\ Fail(p, "Error creating package")

\* zipf.write(file_path, arcname): the file is read now, in listing order
ZipWrite(p) ==
    /\ pc[p] = "walk"
    /\ loc[p].files # {}
    /\ \E file_path \in loc[p].files, io_error \in BOOLEAN :
         LET arcname == relative_to(file_path, parent(loc[p].source_path))
         IN  /\ loc' = [loc EXCEPT ![p].files = @ \ {file_path}]
             /\ IF io_error \/ ~exists(file_path) \/ is_dir(fs, file_path)
                THEN Abort(p) /\ fsops' = did(p, "write", FALSE)
                ELSE /\ fsops' = did(p, "write", TRUE)
                     /\ fs' = [fs EXCEPT ![loc[p].output_file].data.zip =
                                   Append(@, [name |-> arcname, data |-> fs[file_path].data])]
                     /\ out' = printed(p, <<<<"added", Str(arcname)>>>>)
                     /\ UNCHANGED <<pc, ret>>
    /\ UNCHANGED <<argv, exit_code, fs0, hist, nameVars, fmVars>>

\* the end of the with block: ZipFile.close() writes the central directory
CloseZip(p) ==
    /\ pc[p] = "walk"
    /\ loc[p].files = {}
    /\ loc[p].stack = <<>>
    /\ \E io_error \in BOOLEAN :
         IF io_error
         THEN Fail(p, "Error creating package") /\ fsops' = did(p, "close", FALSE)
              /\ UNCHANGED fs
         ELSE /\ fsops' = did(p, "close", TRUE)
              /\ fs' = [fs EXCEPT ![loc[p].output_file].data.closed = TRUE]
              /\ pc' = [pc EXCEPT ![p] = "stat"]
              /\ UNCHANGED <<out, ret>>
    /\ UNCHANGED <<argv, loc, exit_code, fs0, hist, nameVars, fmVars>>

\* mutant: a failure of stat() is swallowed and success is reported
StatOutput_IgnoresError(p) ==
    /\ pc[p] = "stat"
    /\ \E io_error \in BOOLEAN :
         /\ fsops' = did(p, "stat", ~(io_error \/ ~exists(loc[p].output_file)))
         /\ out' = printed(p, <<<<"success", "Skill packaged successfully!">>>>)
         /\ ret' = [ret EXCEPT ![p] = "True"]
         /\ pc' = [pc EXCEPT ![p] = "return"]
    /\ UNCHANGED <<fs, argv, loc, exit_code, fs0, hist, nameVars, fmVars>>

\* mutant: the success report is printed before stat(), which may still fail
StatOutput_ReportsBeforeStat(p) ==
    /\ pc[p] = "stat"
    /\ \E io_error \in BOOLEAN :
         IF io_error \/ ~exists(loc[p].output_file)
         THEN /\ fsops' = did(p, "stat", FALSE)
              /\ out' = printed(p, <<<<"success", "Skill packaged successfully!">>,
                                     <<"error", "Error creating package">>>>)
              /\ ret' = [ret EXCEPT ![p] = "False"]
              /\ pc' = [pc EXCEPT ![p] = "return"]
         ELSE /\ fsops' = did(p, "stat", TRUE)
              /\ out' = printed(p, <<<<"success", "Skill packaged successfully!">>>>)
              /\ ret' = [ret EXCEPT ![p] = "True"]
              /\ pc' = [pc EXCEPT ![p] = "return"]
    /\ UNCHANGED <<fs, argv, loc, exit_code, fs0, hist, nameVars, fmVars>>

\* output_file.stat() and the success report
StatOutput(p) ==
    /\ pc[p] = "stat"
    /\ \E io_error \in BOOLEAN :
         IF io_error \/ ~exists(loc[p].output_file)
         THEN Fail(p, "Error creating package") /\ fsops' = did(p, "stat", FALSE)
         ELSE /\ fsops' = did(p, "stat", TRUE)
              /\ out' = printed(p, <<<<"success", "Skill packaged successfully!">>>>)
              /\ ret' = [ret EXCEPT ![p] = "True"]
              /\ pc' = [pc EXCEPT ![p] = "return"]
    /\ UNCHANGED <<fs, argv, loc, exit_code, fs0, hist, nameVars, fmVars>>

\* sys.exit(0 if success else 1)
Exit(p) ==
    /\ pc[p] = "return"
    /\ exit_code' = [exit_code EXCEPT ![p] = IF ret[p] = "True" THEN 0 ELSE 1]
    /\ pc' = [pc EXCEPT ![p] = "exited"]
    /\ UNCHANGED <<fs, argv, loc, out, fsops, ret, fs0, hist, nameVars, fmVars>>

Step(p) ==
    \/ Main(p)
    \/ ValidateName(p)
    \/ CheckSourceDir(p)
    \/ CheckSkillMd(p)
    \/ ValidateFrontmatter(p)
    \/ OpenZip(p)
    \/ Scandir(p)
    \/ ZipWrite(p)
    \/ CloseZip(p)
    \/ StatOutput(p)
    \/ Exit(p)

\* an archive's entries, whatever their order
Entries(data) == {<<data.zip[i].name, data.zip[i].data>> : i \in DOMAIN data.zip}

\* the same command is run again, after the previous run has exited; the result
\* of a successful run is remembered by its entries
Rerun(p) ==
    /\ pc[p] = "exited"
    /\ Len(hist) + 1 < MaxRuns
    /\ hist' = Append(hist,
                 [ret |-> ret[p], exit_code |-> exit_code[p],
                  entries |-> IF ret[p] = "True" THEN Entries(fs[loc[p].output_file].data)
                              ELSE {},
                  count |-> IF ret[p] = "True" THEN Len(fs[loc[p].output_file].data.zip)
                            ELSE 0])
    /\ pc' = [pc EXCEPT ![p] = "main"]
    /\ loc' = [loc EXCEPT ![p] = InitLoc]
    /\ out' = [out EXCEPT ![p] = <<>>]
    /\ fsops' = [fsops EXCEPT ![p] = <<>>]
    /\ ret' = [ret EXCEPT ![p] = Pending]
    /\ exit_code' = [exit_code EXCEPT ![p] = -1]
    /\ fs0' = fs
    /\ UNCHANGED <<fs, argv, nameVars, fmVars>>

(***************************************************************************)
(* Initial states                                                          *)
(***************************************************************************)
Foo == <<"f", "o", "o">>
Bar == <<"b", "a", "r">>
FooBar == <<"F", "o", "o", "_", "B", "a", "r">>
FooNl == <<"f", "o", "o", "\n">>

LineName == KeyName \o <<" ", "x">>
LineDescription == KeyDescription \o <<" ", "y">>
LinePadded == <<" ">> \o Delim \o <<"\t">>
LineDash4 == Delim \o <<"-">>
LineFirst == Delim \o KeyName \o KeyDescription
LineText == <<"x">>
LineBad == <<BadByte>>

LF == <<"\n">>
CRLF == <<"\r", "\n">>
CR == <<"\r">>

ManifestOk == join(LF, <<Delim, LineName, LineDescription, Delim, LineText, <<>>>>)
ManifestNoStart == join(LF, <<LineText, LineName, LineDescription, Delim>>)
ManifestNoEnd == join(LF, <<Delim, LineName, LineDescription>>)
ManifestNoName == join(LF, <<Delim, LineDescription, Delim, LineName>>)
ManifestNoDescription == join(LF, <<Delim, LineName, Delim>>)
ManifestBad == join(LF, <<Delim, LineName, LineDescription, Delim, LineBad>>)

PkgManifests == {ManifestOk, ManifestNoStart, ManifestNoEnd, ManifestNoName,
                 ManifestNoDescription, ManifestBad}

BaseFS == (<<"w">> :> Dir) @@ (<<"o">> :> Dir)

MdConfigs(t) ==
    {NoFiles, Append(t, "SKILL.md") :> Dir}
    \cup {Append(t, "SKILL.md") :> File(m) : m \in PkgManifests}

ExtraConfigs(t) ==
    {NoFiles,
     Append(t, "helper.txt") :> File(<<"h">>),
     (Append(t, "helper.txt") :> File(<<"h">>)) @@ (Append(t, "sub") :> Dir)
        @@ (Append(Append(t, "sub"), "a.txt") :> File(<<"a">>))}

TreeConfigs(t) ==
    {NoFiles, t :> File(<<"x">>)}
    \cup {(t :> Dir) @@ md @@ extra : md \in MdConfigs(t), extra \in ExtraConfigs(t)}

OutDirs == {<<"w">>, <<"w", "foo">>, <<"w", "foo", "sub">>, <<"o">>, <<"nx">>}

Argvs ==
    {<<>>}
    \cup {<<id>> : id \in {Foo, FooBar, FooNl, Rep("a", MaxNameLen + 1)}}
    \cup {<<id, <<"w">>>> : id \in {Foo, FooBar}}
    \cup {<<Foo, <<"w">>, o>> : o \in OutDirs}

OldArchive ==
    [kind |-> "file",
     data |-> [text |-> <<>>,
               zip |-> <<[name |-> <<"old", "f.txt">>, data |-> File(<<"o">>).data]>>,
               closed |-> TRUE]]

\* the output file the command line a names
OutputFileOf(a) ==
    Append(IF Len(a) > 2 THEN a[3] ELSE Cwd, Str(a[1]) \o ".skill")

WithOld(f, a, old) ==
    IF old /\ Len(a) >= 1 /\ is_dir(f, parent(OutputFileOf(a))) /\ OutputFileOf(a) \notin DOMAIN f
    THEN (OutputFileOf(a) :> OldArchive) @@ f
    ELSE f

IdleName ==
    /\ name_arg = <<>>
    /\ name_ret = NoRet

IdleFm ==
    /\ md_lines = <<>>
    /\ md_term = <<>>
    /\ fm_ret = NoRet
    /\ fm_end = -1

InitProcs(a1, a2) ==
    /\ argv = <<a1, a2>>
    /\ loc = <<InitLoc, InitLoc>>
    /\ out = <<<<>>, <<>>>>
    /\ fsops = <<<<>>, <<>>>>
    /\ ret = <<Pending, Pending>>
    /\ exit_code = <<-1, -1>>
    /\ hist = <<>>

\* one invocation, run up to MaxRuns times in sequence
Init ==
    /\ \E a \in Argvs, tree \in TreeConfigs(<<"w", "foo">>), old \in BOOLEAN :
         /\ fs = WithOld(tree @@ BaseFS, a, old)
         /\ InitProcs(a, <<>>)
    /\ fs0 = fs
    /\ pc = <<"main", "off">>
    /\ IdleName
    /\ IdleFm

Next ==
    \/ Step(1)
    \/ Rerun(1)

Spec == Init /\ [][Next]_vars

\* a process runs until it exits; the command is run again until MaxRuns
FairSpec == Spec /\ WF_vars(Next)

(***************************************************************************)
(* Two invocations in separate processes, interleaved at filesystem steps  *)
(***************************************************************************)
ConcTree ==
    (<<"w", "foo">> :> Dir) @@ (<<"w", "foo", "SKILL.md">> :> File(ManifestOk))
    @@ (<<"w", "foo", "helper.txt">> :> File(<<"h">>))
    @@ (<<"w", "bar">> :> Dir) @@ (<<"w", "bar", "SKILL.md">> :> File(ManifestOk))

ConcOutDirs == {<<"o">>, <<"w", "foo">>, <<"w", "bar">>}

InitConc ==
    /\ \E id2 \in {Foo, Bar}, o1, o2 \in ConcOutDirs :
         /\ OutputFileOf(<<Foo, <<"w">>, o1>>) # OutputFileOf(<<id2, <<"w">>, o2>>)
         /\ InitProcs(<<Foo, <<"w">>, o1>>, <<id2, <<"w">>, o2>>)
    /\ fs = ConcTree @@ BaseFS
    /\ fs0 = fs
    /\ pc = <<"main", "main">>
    /\ IdleName
    /\ IdleFm

NextConc == \E p \in Procs : Step(p)

SpecConc == InitConc /\ [][NextConc]_vars

(***************************************************************************)
(* Direct calls of the two validators                                      *)
(***************************************************************************)
IdlePkg ==
    /\ InitProcs(<<>>, <<>>)
    /\ pc = <<"off", "off">>
    /\ fs0 = fs

NameChars == {"a", "z", "0", "9", "-", "A", "_", " ", "\n", "\t", "/", ":", "{", "."}
NameLens == (0..MaxShort) \cup ((MaxNameLen - 2)..(MaxNameLen + MaxOver))

\* names of a's with at most one other character somewhere
NameInputs ==
    UNION {{[i \in 1..n |-> IF i = k THEN c ELSE "a"] : k \in 0..n, c \in NameChars} :
           n \in NameLens}

InitName ==
    /\ name_arg \in NameInputs
    /\ name_ret = NoRet
    /\ fs = NoFiles
    /\ IdlePkg
    /\ IdleFm

CallValidateName ==
    /\ name_ret = NoRet
    /\ name_ret' = validate_skill_name(name_arg)
    /\ UNCHANGED <<name_arg, pkgVars, fmVars>>

NextName == CallValidateName

SpecName == InitName /\ [][NextName]_vars

FirstLines == {Delim, LineFirst, LinePadded, LineName}
OtherLines == {Delim, LinePadded, LineDash4, LineName, LineDescription, LineText,
               LineBad, <<>>}
Terminators == {LF, CRLF, CR}

MdInputs ==
    {<<>>} \cup
    UNION {{<<first>> \o rest : first \in FirstLines, rest \in [1..n -> OtherLines]} :
           n \in 0..(MaxLines - 1)}

SkillMd == <<"w", "foo", "SKILL.md">>

InitFm ==
    /\ md_lines \in MdInputs
    /\ md_term \in Terminators
    /\ fm_ret = NoRet
    /\ fm_end = -1
    /\ fs = (SkillMd :> File(join(md_term, md_lines))) @@ (<<"w", "foo">> :> Dir) @@ BaseFS
    /\ IdlePkg
    /\ IdleName

CallValidateFrontmatter ==
    /\ fm_ret = NoRet
    /\ fm_ret' = validate_frontmatter(SkillMd)
    /\ fm_end' = [rd \in {ReadText(SkillMd)} |->
                     IF rd[1] /\ startswith(rd[2], Delim)
                     THEN frontmatter_end(split(rd[2], "\n")) ELSE -1][ReadText(SkillMd)]
    /\ UNCHANGED <<md_lines, md_term, pkgVars, nameVars>>

NextFm == CallValidateFrontmatter

SpecFm == InitFm /\ [][NextFm]_vars

(***************************************************************************)
(* Properties of validate_skill_name                                       *)
(***************************************************************************)
LowerDigitHyphen ==
    {"a", "b", "c", "d", "e", "f", "g", "h", "i", "j", "k", "l", "m", "n", "o", "p",
     "q", "r", "s", "t", "u", "v", "w", "x", "y", "z",
     "0", "1", "2", "3", "4", "5", "6", "7", "8", "9", "-"}

NameReturned == name_ret # NoRet

\* C1: validate_skill_name(s) succeeds if and only if s is non-empty, has at most
\* 64 characters and every character of s is one of a-z, 0-9 and '-'; every other
\* string, one with a line terminator anywhere included, is rejected.
C1_ValidIffCharsetAndLength ==
    NameReturned =>
        (name_ret[1] <=>
            /\ Len(name_arg) >= 1
            /\ Len(name_arg) <= 64
            /\ \A i \in 1..Len(name_arg) : name_arg[i] \in LowerDigitHyphen)

(***************************************************************************)
(* Properties of validate_frontmatter                                      *)
(***************************************************************************)
FmReturned == fm_ret # NoRet

\* the manifest can be read and its content begins with ---
Readable == \A i \in 1..Len(md_lines) : BadByte \notin {md_lines[i][j] : j \in 1..Len(md_lines[i])}
BeginsWithDelim ==
    /\ Len(md_lines) >= 1
    /\ Len(md_lines[1]) >= 3
    /\ \A j \in 1..3 : md_lines[1][j] = "-"

\* line i of the file is the three characters --- and nothing else: a carriage
\* return that ends the line is a character of it
SolelyDelim(i) ==
    /\ md_lines[i] = <<"-", "-", "-">>
    /\ (md_term = LF \/ i = Len(md_lines))

\* line i is --- once the blanks around it (spaces, tabs, the line's carriage
\* return) are removed
Blanks == {" ", "\t", "\r"}
DelimAfterStrip(i) ==
    \E k \in 1..(Len(md_lines[i]) - 2) :
        /\ \A j \in 1..Len(md_lines[i]) :
              IF j \in k..(k + 2) THEN md_lines[i][j] = "-" ELSE md_lines[i][j] \in Blanks

FirstSuch(P(_)) ==
    CHOOSE i \in 2..Len(md_lines) : P(i) /\ \A j \in 2..(i - 1) : ~P(j)

\* C5 as stated: for a readable manifest that begins with ---, validation fails
\* with MissingEnd if no line after the first consists solely of ---, and the
\* closing delimiter used is the first line that does.
C5_MissingEndUnlessBareDelimLine ==
    (FmReturned /\ Readable /\ BeginsWithDelim) =>
        IF \E i \in 2..Len(md_lines) : SolelyDelim(i)
        THEN fm_end = FirstSuch(SolelyDelim) - 1
        ELSE fm_ret = <<FALSE, MsgNoEnd>>

\* C5 as amended: for a readable manifest that begins with ---, validation fails
\* with MissingEnd if no line after the first is --- once leading and trailing
\* whitespace is removed, and the closing delimiter used is the first line that is.
C5_MissingEndUnlessStrippedDelimLine ==
    (FmReturned /\ Readable /\ BeginsWithDelim) =>
        IF \E i \in 2..Len(md_lines) : DelimAfterStrip(i)
        THEN fm_end = FirstSuch(DelimAfterStrip) - 1 /\ fm_ret # <<FALSE, MsgNoEnd>>
        ELSE fm_ret = <<FALSE, MsgNoEnd>>

\* MissingEnd is reported for a manifest with a ---- line and no delimiter line,
\* and a padded delimiter line is used although a bare one follows it
C5_Witness ==
    /\ FmReturned /\ Readable /\ BeginsWithDelim
    /\ Len(md_lines) >= 3
    /\ \/ md_lines[2] = LineDash4 /\ fm_ret = <<FALSE, MsgNoEnd>>
       \/ md_lines[2] = LinePadded /\ md_lines[3] = Delim /\ fm_end = 1

Occurs(key, line) ==
    \E k \in 1..Len(line) :
        /\ k + Len(key) - 1 <= Len(line)
        /\ \A j \in 1..Len(key) : line[k + j - 1] = key[j]

\* key occurs in a line strictly between the first line and the closing delimiter
Between(key) ==
    \E i \in 2..(FirstSuch(DelimAfterStrip) - 1) : Occurs(key, md_lines[i])

\* C6: for a readable manifest with a start delimiter and a closing delimiter
\* line, validation succeeds if and only if the lines strictly between the first
\* line and the first closing delimiter line contain name: and description:;
\* otherwise it reports a field that is absent, name when both are.
C6_FieldsBetweenDelimiters ==
    (FmReturned /\ Readable /\ BeginsWithDelim
        /\ \E i \in 2..Len(md_lines) : DelimAfterStrip(i)) =>
        /\ fm_ret[1] <=> (Between(KeyName) /\ Between(KeyDescription))
        /\ ~Between(KeyName) => fm_ret = <<FALSE, MsgNoName>>
        /\ (Between(KeyName) /\ ~Between(KeyDescription)) => fm_ret = <<FALSE, MsgNoDescription>>

\* both fields on the first line and after the closing delimiter only: rejected;
\* both between the delimiters: accepted
C6_Witness ==
    /\ FmReturned
    /\ Len(md_lines) = 4
    /\ \/ md_lines = <<LineFirst, Delim, LineName, LineDescription>> /\ fm_ret = <<FALSE, MsgNoName>>
       \/ md_lines = <<Delim, LineName, LineDescription, LinePadded>> /\ fm_ret[1]

(***************************************************************************)
(* Properties of an invocation                                             *)
(***************************************************************************)
Exited(p) == pc[p] = "exited"
Returned(p) == pc[p] \in {"return", "exited"} /\ argv[p] # <<>>

Ops(p) == [i \in DOMAIN fsops[p] |-> fsops[p][i].op]
Lines(p, tag) == {i \in DOMAIN out[p] : out[p][i][1] = tag}
\* the error reported, "None" when none was
Reported(p) ==
    IF Lines(p, "error") = {} THEN "None"
    ELSE out[p][CHOOSE i \in Lines(p, "error") : \A j \in Lines(p, "error") : i <= j][2]

MsgNoDir == "Skill directory not found"
MsgNoMd == "SKILL.md not found"
MsgPackaging == "Error creating package"

\* the four checks, as the command line and the filesystem decide them
TreeOf(p) == Append(IF Len(argv[p]) > 1 THEN argv[p][2] ELSE Cwd, Str(argv[p][1]))
ManifestOf(p) == Append(TreeOf(p), "SKILL.md")
ExpectedError(p) ==
    LET n == validate_skill_name(argv[p][1])
        v == validate_frontmatter(ManifestOf(p))
    IN  IF ~n[1] THEN n[2]
        ELSE IF TreeOf(p) \notin DOMAIN fs THEN MsgNoDir
        ELSE IF ManifestOf(p) \notin DOMAIN fs THEN MsgNoMd
        ELSE IF ~v[1] THEN v[2]
        ELSE "None"

\* the filesystem operations a run that stops at each check has performed
ExpectedOps(p) ==
    IF ~validate_skill_name(argv[p][1])[1] THEN <<>>
    ELSE IF TreeOf(p) \notin DOMAIN fs THEN <<"exists">>
    ELSE IF ManifestOf(p) \notin DOMAIN fs THEN <<"exists", "exists">>
    ELSE <<"exists", "exists", "read">>

InOrder(ops) ==
    \A i \in DOMAIN ops :
        /\ i <= 2 => ops[i] = "exists"
        /\ i = 3 => ops[i] = "read"
        /\ i = 4 => ops[i] = "create"
        /\ i > 4 => ops[i] \in {"scandir", "write", "close", "stat"}
        /\ (i > 1 /\ ops[i - 1] = "close") => ops[i] = "stat"
        /\ (i > 1 /\ ops[i - 1] = "stat") => FALSE

\* C3: the steps run in the order identifier format, Source Tree exists, SKILL.md
\* present, header block valid, archive write; the run stops at the first step
\* that fails and reports that step's failure; an identifier that fails
\* validation is rejected before any filesystem operation.
C3_StepsInOrderFirstFailureStops ==
    /\ InOrder(Ops(1))
    /\ Returned(1) =>
         LET e == ExpectedError(1)
         IN  IF e # "None"
             THEN Reported(1) = e /\ Ops(1) = ExpectedOps(1) /\ ret[1] = "False"
             ELSE /\ Len(Ops(1)) >= 4
                  /\ SubSeq(Ops(1), 1, 3) = <<"exists", "exists", "read">>
                  /\ Reported(1) \in {"None", MsgPackaging}

\* Foo_Bar was rejected and nothing on the filesystem was looked at
C3_Witness ==
    /\ Exited(1)
    /\ argv[1] # <<>>
    /\ argv[1][1] = FooBar
    /\ Reported(1) = MsgNameFormat
    /\ fsops[1] = <<>>

ArchiveOf(p) == fs[OutputFileOf(argv[p])].data
Succeeded(p) ==
    /\ argv[p] # <<>>
    /\ ExpectedError(p) = "None"
    /\ \A i \in DOMAIN fsops[p] : fsops[p][i].ok
    /\ fsops[p] # <<>>
    /\ fsops[p][Len(fsops[p])].op = "stat"
    /\ OutputFileOf(argv[p]) \in DOMAIN fs
    /\ ArchiveOf(p).closed

\* C4: the exit code is 0 if and only if every step succeeded and the archive was
\* written and closed; it is 1 for a missing identifier argument, for every
\* validation failure and for a failure of archive creation, of an entry write
\* or of the final size query.
C4_ExitZeroIffEveryStepSucceeded ==
    Exited(1) =>
        /\ exit_code[1] \in {0, 1}
        /\ exit_code[1] = 0 <=> Succeeded(1)
        /\ (Lines(1, "error") # {} \/ argv[1] = <<>>) => exit_code[1] = 1

\* an entry write failed after an entry had been written: the partial archive
\* remains and the exit code is 1
C4_Witness ==
    /\ Exited(1)
    /\ exit_code[1] = 1
    /\ \E i \in DOMAIN fsops[1] : fsops[1][i] = [op |-> "write", ok |-> FALSE]
    /\ Len(ArchiveOf(1).zip) >= 1

\* the paths of the regular files under directory d
FilesUnder(f, d) == {q \in DOMAIN f : is_under(q, d) /\ f[q].kind = "file"}

\* C2: when package_skill reports success, wherever the output directory lies,
\* the archive holds exactly one entry per regular file under the Source Tree and
\* no other, each named by the file's path relative to the base directory and
\* holding the file's bytes.
C2_ArchiveMirrorsSourceTree ==
    (Returned(1) /\ ret[1] = "True") =>
        LET z == ArchiveOf(1).zip
            base == parent(TreeOf(1))
        IN  /\ Len(z) = Cardinality(FilesUnder(fs, TreeOf(1)))
            /\ {base \o z[i].name : i \in DOMAIN z} = FilesUnder(fs, TreeOf(1))
            /\ \A i \in DOMAIN z :
                 /\ z[i].name[1] = Str(argv[1][1])
                 /\ z[i].data = fs[base \o z[i].name].data

\* C7: two runs in sequence with the same arguments, both successful, leave
\* archives with the same entries and the same content for every entry.
C7_SecondRunSameArchive ==
    (Exited(1) /\ Len(hist) = 1 /\ hist[1].ret = "True" /\ ret[1] = "True") =>
        /\ Entries(ArchiveOf(1)) = hist[1].entries
        /\ Len(ArchiveOf(1).zip) = hist[1].count

OneOutcome(p) ==
    Exited(p) =>
        \/ /\ exit_code[p] = 0
           /\ Cardinality(Lines(p, "success")) = 1
           /\ Lines(p, "error") \cup Lines(p, "usage") = {}
        \/ /\ exit_code[p] = 1
           /\ Lines(p, "success") = {}
           /\ Cardinality(Lines(p, "error") \cup Lines(p, "usage")) = 1

Count(p, op) == Cardinality({i \in DOMAIN fsops[p] : fsops[p][i].op = op})
NoRetry(p) ==
    /\ Count(p, "exists") <= 2
    /\ \A op \in {"read", "create", "close", "stat"} : Count(p, op) <= 1
    /\ loc[p].output_file \in DOMAIN fs =>
         \A i, j \in DOMAIN fs[loc[p].output_file].data.zip :
             fs[loc[p].output_file].data.zip[i].name = fs[loc[p].output_file].data.zip[j].name
                 => i = j

C10_ValidationFailureWritesNothing ==
    /\ (Exited(1) /\ argv[1] = <<>>) => fs = fs0
    /\ (Returned(1) /\ Reported(1) \notin {"None", MsgPackaging}) => fs = fs0
    /\ fs # fs0 => (argv[1] # <<>> /\ ExpectedError(1) = "None"
                      /\ Lines(1, "validated") # {})

\* the manifest has no closing delimiter and the old archive is still in place
C10_Witness ==
    /\ Exited(1)
    /\ Reported(1) = MsgNoEnd
    /\ OutputFileOf(argv[1]) \in DOMAIN fs
    /\ fs[OutputFileOf(argv[1])] = OldArchive

(***************************************************************************)
(* Properties of two concurrent invocations                                *)
(***************************************************************************)
\* the archive a run of p alone leaves, given the filesystem it started from: one
\* entry per file of its Source Tree, its own output file included when that lies
\* in the tree, in some order; its own output file is read as written so far
AloneArchive(p) ==
    LET tree == TreeOf(p)
        base == parent(TreeOf(p))
        own == OutputFileOf(argv[p])
        expected == FilesUnder(fs0, tree) \cup (IF is_under(own, tree) THEN {own} ELSE {})
    IN  /\ own \in DOMAIN fs
        /\ fs[own].kind = "file"
        /\ fs[own].data.closed
        /\ Len(fs[own].data.zip) = Cardinality(expected)
        /\ {base \o fs[own].data.zip[i].name : i \in DOMAIN fs[own].data.zip} = expected
        /\ \A i \in DOMAIN fs[own].data.zip :
             fs[own].data.zip[i].data =
                IF base \o fs[own].data.zip[i].name = own
                THEN [text |-> <<>>, zip |-> SubSeq(fs[own].data.zip, 1, i - 1), closed |-> FALSE]
                ELSE fs0[base \o fs[own].data.zip[i].name].data

\* the result of p is one a run of p alone can have
AsAlone(p) ==
    IF ExpectedError(p) # "None"
    THEN ret[p] = "False" /\ Reported(p) = ExpectedError(p)
    ELSE \/ ret[p] = "True" /\ Reported(p) = "None" /\ AloneArchive(p)
         \/ ret[p] = "False" /\ Reported(p) = MsgPackaging

OutputsDiffer == OutputFileOf(argv[1]) # OutputFileOf(argv[2])
OutsideOtherTree ==
    /\ ~is_under(OutputFileOf(argv[1]), TreeOf(2))
    /\ ~is_under(OutputFileOf(argv[2]), TreeOf(1))

\* C8 as stated: two concurrent invocations whose output file paths differ each
\* have the result and the archive they would have alone, whatever relation their
\* source trees and output directories have.
C8_ConcurrentAsAlone ==
    (Exited(1) /\ Exited(2) /\ OutputsDiffer) => (AsAlone(1) /\ AsAlone(2))

\* C8 as amended: two concurrent invocations whose output file paths differ, and
\* neither of whose output files lies inside the other's Source Tree, each have
\* the result and the archive they would have alone.
C8_ConcurrentAsAloneOutsideOtherTree ==
    (Exited(1) /\ Exited(2) /\ OutputsDiffer /\ OutsideOtherTree) =>
        (AsAlone(1) /\ AsAlone(2))

\* both packaged the same Source Tree at once, one of them into that tree's
\* sibling, and both succeeded
C8_Witness ==
    /\ Exited(1) /\ Exited(2)
    /\ OutputsDiffer /\ OutsideOtherTree
    /\ argv[2][1] = Foo
    /\ argv[2][3] = <<"w", "bar">>
    /\ ret = <<"True", "True">>

====
